---- MODULE Spec2Model ----
(***************************************************************************)
(* The Playwright verification scripts of weather_clock as one state       *)
(* machine.  A run picks one script; the script is a list of instructions  *)
(* (one per browser/page call or control statement, tagged with its source *)
(* line and with the try/except/finally block it sits in).  Every call     *)
(* that can raise either returns or raises; control then follows Python's  *)
(* try/except/finally rules.  `trace` is the log of the calls executed.    *)
(***************************************************************************)
EXTENDS Integers, Naturals, Sequences, FiniteSets, TLC

VARIABLES script, pc, pending, trace, artifacts, closed, reported,
          text, result, status, exitCode, escaped,
          app, listeners, emitted, transcript

vars == <<script, pc, pending, trace, artifacts, closed, reported,
          text, result, status, exitCode, escaped,
          app, listeners, emitted, transcript>>

(* ---- bounds of the model ---- *)
MaxTextLen == 3

(* console messages and page errors the page emits in one run *)
MaxEvents == 2

(* ---- program constants ---- *)
MinDateLen == 3

Chars == {"-", "x"}

Texts == UNION {[1..n -> Chars] : n \in 0..MaxTextLen}

Placeholder == <<"-", "-">>

(***************************************************************************)
(* Instructions.  region: "plain" (outside any try), "try0"/"except0" (the *)
(* navigation try of verify_weather.py), "try", "except", "inner" (the     *)
(* try/except-pass nested in verify_scene.py's handler), "finally".        *)
(* guarded: inside the `if btn.is_visible()` branch of verify_splashes.py. *)
(***************************************************************************)
Op(kind, arg, line, region) ==
  [kind |-> kind, arg |-> arg, line |-> line, region |-> region, guarded |-> FALSE]

GOp(kind, arg, line, region) ==
  [kind |-> kind, arg |-> arg, line |-> line, region |-> region, guarded |-> TRUE]

(* scene_run with the error screenshot written over the scene screenshot *)
scene_run_same_path ==
  << Op("launch", "", 5, "plain"),
     Op("new_page", "", 6, "plain"),
     Op("goto", "", 9, "try"),
     Op("wait_selector", "#canvas-container canvas", 13, "try"),
     Op("wait_timeout", "5000", 18, "try"),
     Op("screenshot", "verification_scene.png", 21, "try"),
     Op("report", "", 24, "except"),
     Op("screenshot", "verification_scene.png", 27, "inner"),
     Op("close", "", 31, "finally") >>

scene_run ==
  << Op("launch", "", 5, "plain"),
     Op("new_page", "", 6, "plain"),
     Op("goto", "", 9, "try"),
     Op("wait_selector", "#canvas-container canvas", 13, "try"),
     Op("wait_timeout", "5000", 18, "try"),
     Op("screenshot", "verification_scene.png", 21, "try"),
     Op("report", "", 24, "except"),
     Op("screenshot", "error_state.png", 27, "inner"),
     Op("close", "", 31, "finally") >>

storm_run ==
  << Op("launch", "", 5, "plain"),
     Op("new_page", "", 6, "plain"),
     Op("goto", "", 7, "plain"),
     Op("wait_selector", "#canvas-container canvas", 10, "plain"),
     Op("wait_timeout", "2000", 13, "plain"),
     Op("hook", "setDebugWeather(95)", 17, "plain"),
     Op("wait_timeout", "6000", 21, "plain"),
     Op("screenshot", "verification_storm_new.png", 23, "plain"),
     Op("close", "", 24, "plain") >>

root_verify_clouds ==
  << Op("launch", "", 5, "plain"),
     Op("new_page", "", 6, "plain"),
     Op("goto", "", 10, "try"),
     Op("wait_selector", "canvas", 13, "try"),
     Op("wait_timeout", "3000", 17, "try"),
     Op("hook", "setDebugWeather(3)", 22, "try"),
     Op("wait_timeout", "6000", 25, "try"),
     Op("screenshot", "verification_clouds.png", 28, "try"),
     Op("hook", "setDebugWeather(95)", 33, "try"),
     Op("wait_timeout", "6000", 34, "try"),
     Op("screenshot", "verification_storm.png", 35, "try"),
     Op("report", "", 39, "except"),
     Op("close", "", 41, "finally") >>

verify_weather ==
  << Op("launch", "", 35, "plain"),
     Op("new_page", "", 36, "plain"),
     Op("goto", "", 6, "try"),
     Op("wait_selector", "#canvas-container", 9, "try"),
     Op("sleep", "2", 10, "try"),
     Op("click", "#time-warp-btn", 14, "try"),
     Op("sleep", "1", 15, "try"),
     Op("style", "#time-display", 20, "try"),
     Op("screenshot", "verification/verify_timewarp.png", 24, "try"),
     Op("hook", "setDebugWeather(65)", 28, "try"),
     Op("sleep", "2", 29, "try"),
     Op("screenshot", "verification/verify_rain_splash.png", 31, "try"),
     Op("report", "", 40, "except"),
     Op("close", "", 42, "finally") >>

verify_clouds ==
  << Op("launch", "", 6, "plain"),
     Op("new_page", "", 7, "plain"),
     Op("goto", "", 10, "try"),
     Op("wait_selector", "#canvas-container canvas", 13, "try"),
     Op("sleep", "5", 16, "try"),
     Op("screenshot", "verification/clouds_1.png", 19, "try"),
     Op("sleep", "2", 23, "try"),
     Op("screenshot", "verification/clouds_2.png", 26, "try"),
     Op("report", "", 30, "except"),
     Op("close", "", 32, "finally") >>

verify_date ==
  << Op("launch", "", 28, "plain"),
     Op("new_page", "", 29, "plain"),
     Op("goto", "", 6, "try"),
     Op("wait_selector", "#date-display", 10, "try"),
     Op("sleep", "2", 13, "try"),
     Op("inner_text", "#date-display", 16, "try"),
     Op("assert_date", "", 19, "try"),
     Op("screenshot", "verification_date.png", 23, "try"),
     Op("report", "", 33, "except"),
     Op("exit", "1", 34, "except"),
     Op("close", "", 36, "finally") >>

verify_dust ==
  << Op("launch", "", 5, "plain"),
     Op("new_page", "", 6, "plain"),
     Op("goto", "", 9, "try"),
     Op("wait_selector", "canvas", 10, "try"),
     Op("wait_timeout", "2000", 11, "try"),
     Op("dust_eval", "", 14, "try"),
     Op("dust_check", "", 26, "try"),
     Op("report", "", 33, "except"),
     Op("exit", "1", 34, "except"),
     Op("close", "", 36, "finally") >>

verify_night_lighting ==
  << Op("launch", "", 5, "plain"),
     Op("new_page", "", 6, "plain"),
     Op("goto", "", 9, "try"),
     Op("wait_selector", "canvas", 10, "try"),
     Op("hook", "setDebugTime(4)", 14, "try"),
     Op("wait_timeout", "2000", 15, "try"),
     Op("hook", "setDebugWeather(0)", 19, "try"),
     Op("wait_timeout", "3000", 20, "try"),
     Op("screenshot", "verification/night_clear.png", 21, "try"),
     Op("hook", "setDebugWeather(95)", 26, "try"),
     Op("wait_timeout", "3000", 27, "try"),
     Op("screenshot", "verification/night_storm.png", 28, "try"),
     Op("report", "", 32, "except"),
     Op("close", "", 34, "finally") >>

script_verify_weather_app ==
  << Op("launch", "", 5, "plain"),
     Op("new_page", "", 6, "plain"),
     Op("goto", "", 10, "plain"),
     Op("wait_selector", "canvas", 13, "plain"),
     Op("wait_timeout", "2000", 16, "plain"),
     Op("screenshot", "verification/visual_check.png", 19, "plain"),
     Op("close", "", 21, "plain") >>

(* verify_sky with the screenshot taken before the transition wait *)
verify_sky_no_wait ==
  << Op("launch", "", 6, "plain"),
     Op("new_page", "", 7, "plain"),
     Op("goto", "", 8, "plain"),
     Op("sleep", "3", 9, "plain"),
     Op("hook", "setDebugTime(17)", 12, "plain"),
     Op("hook", "setDebugWeather(0)", 15, "plain"),
     Op("screenshot", "verification/sky_noon_real.png", 18, "plain"),
     Op("sleep", "3", 17, "plain"),
     Op("close", "", 20, "plain") >>

verify_sky ==
  << Op("launch", "", 6, "plain"),
     Op("new_page", "", 7, "plain"),
     Op("goto", "", 8, "plain"),
     Op("sleep", "3", 9, "plain"),
     Op("hook", "setDebugTime(17)", 12, "plain"),
     Op("hook", "setDebugWeather(0)", 15, "plain"),
     Op("sleep", "3", 17, "plain"),
     Op("screenshot", "verification/sky_noon_real.png", 18, "plain"),
     Op("close", "", 20, "plain") >>

verify_splashes ==
  << Op("launch", "", 6, "plain"),
     Op("new_page", "", 7, "plain"),
     Op("goto", "", 10, "plain"),
     Op("sleep", "5", 13, "plain"),
     Op("hook", "setDebugWeather(61)", 17, "plain"),
     Op("sleep", "5", 21, "plain"),
     Op("is_visible", "#time-warp-btn", 26, "plain"),
     GOp("click", "#time-warp-btn", 28, "plain"),
     GOp("sleep", "1", 29, "plain"),
     GOp("inner_text", "#time-warp-btn", 31, "plain"),
     Op("screenshot", "verification/splashes.png", 37, "plain"),
     Op("close", "", 39, "plain") >>

(* sunny_verify_weather_app with the listeners registered after page.goto *)
sunny_verify_weather_app_late_listeners ==
  << Op("launch", "", 41, "plain"),
     Op("new_page", "", 42, "plain"),
     Op("goto", "", 10, "try"),
     Op("listen", "console", 6, "try"),
     Op("listen", "pageerror", 7, "try"),
     Op("wait_selector", "canvas", 13, "try"),
     Op("sleep", "5", 16, "try"),
     Op("hook", "setDebugTime(12)", 19, "try"),
     Op("hook", "setDebugWeather(0)", 22, "try"),
     Op("sleep", "1", 25, "try"),
     Op("screenshot", "verification/verify_sunny.png", 28, "try"),
     Op("hook", "setDebugWeather(2)", 31, "try"),
     Op("sleep", "1", 34, "try"),
     Op("screenshot", "verification/verify_cloudy.png", 37, "try"),
     Op("close", "", 46, "finally") >>

sunny_verify_weather_app ==
  << Op("launch", "", 41, "plain"),
     Op("new_page", "", 42, "plain"),
     Op("listen", "console", 6, "try"),
     Op("listen", "pageerror", 7, "try"),
     Op("goto", "", 10, "try"),
     Op("wait_selector", "canvas", 13, "try"),
     Op("sleep", "5", 16, "try"),
     Op("hook", "setDebugTime(12)", 19, "try"),
     Op("hook", "setDebugWeather(0)", 22, "try"),
     Op("sleep", "1", 25, "try"),
     Op("screenshot", "verification/verify_sunny.png", 28, "try"),
     Op("hook", "setDebugWeather(2)", 31, "try"),
     Op("sleep", "1", 34, "try"),
     Op("screenshot", "verification/verify_cloudy.png", 37, "try"),
     Op("close", "", 46, "finally") >>

(* weather_verify_weather_app without the `return` of the goto handler *)
weather_verify_weather_app_no_return ==
  << Op("launch", "", 5, "plain"),
     Op("new_page", "", 6, "plain"),
     Op("goto", "", 10, "try0"),
     Op("report", "", 12, "except0"),
     Op("close", "", 13, "except0"),
     Op("wait_selector", "canvas", 18, "try"),
     Op("wait_timeout", "3000", 22, "try"),
     Op("screenshot", "verification/initial_state.png", 25, "try"),
     Op("hook", "setDebugWeather(65)", 30, "try"),
     Op("wait_timeout", "3000", 31, "try"),
     Op("screenshot", "verification/heavy_rain.png", 33, "try"),
     Op("hook", "setDebugWeather(0)", 37, "try"),
     Op("wait_timeout", "5000", 38, "try"),
     Op("screenshot", "verification/clear_sky.png", 40, "try"),
     Op("report", "", 44, "except"),
     Op("close", "", 46, "finally") >>

weather_verify_weather_app ==
  << Op("launch", "", 5, "plain"),
     Op("new_page", "", 6, "plain"),
     Op("goto", "", 10, "try0"),
     Op("report", "", 12, "except0"),
     Op("close", "", 13, "except0"),
     Op("return", "", 14, "except0"),
     Op("wait_selector", "canvas", 18, "try"),
     Op("wait_timeout", "3000", 22, "try"),
     Op("screenshot", "verification/initial_state.png", 25, "try"),
     Op("hook", "setDebugWeather(65)", 30, "try"),
     Op("wait_timeout", "3000", 31, "try"),
     Op("screenshot", "verification/heavy_rain.png", 33, "try"),
     Op("hook", "setDebugWeather(0)", 37, "try"),
     Op("wait_timeout", "5000", 38, "try"),
     Op("screenshot", "verification/clear_sky.png", 40, "try"),
     Op("report", "", 44, "except"),
     Op("close", "", 46, "finally") >>

Scripts ==
  {"verify_scene", "verify_storm", "verify_clouds_root", "verify_changes",
   "verify_clouds", "verify_date_display", "verify_dust", "verify_night",
   "verify_script", "verify_sky", "verify_splashes", "verify_sunny",
   "verify_weather"}

Prog(s) ==
  CASE s = "verify_scene" -> scene_run
    [] s = "verify_storm" -> storm_run
    [] s = "verify_clouds_root" -> root_verify_clouds
    [] s = "verify_changes" -> verify_weather
    [] s = "verify_clouds" -> verify_clouds
    [] s = "verify_date_display" -> verify_date
    [] s = "verify_dust" -> verify_dust
    [] s = "verify_night" -> verify_night_lighting
    [] s = "verify_script" -> script_verify_weather_app
    [] s = "verify_sky" -> verify_sky
    [] s = "verify_splashes" -> verify_splashes
    [] s = "verify_sunny" -> sunny_verify_weather_app
    [] s = "verify_weather" -> weather_verify_weather_app

(* ---- Python control flow over an instruction list ---- *)
HandlerRegions == {"except0", "except", "inner"}

End(P) == Len(P) + 1

Regions == {"plain", "try0", "except0", "try", "except", "inner", "finally"}

(* the first instruction after i that lies in one of the regions, or End *)
FirstIn(P, i, regions) ==
  LET S == {j \in (i + 1)..Len(P) : P[j].region \in regions}
  IN IF S = {} THEN End(P) ELSE CHOOSE j \in S : \A k \in S : j <= k

(* the first instruction after i outside the `if btn.is_visible()` branch *)
FirstUnguarded(P, i) ==
  LET S == {j \in (i + 1)..Len(P) : ~P[j].guarded}
  IN IF S = {} THEN End(P) ELSE CHOOSE j \in S : \A k \in S : j <= k

(* where control goes when instruction i returns normally: the end of a    *)
(* try body skips the handlers; `return` leaves the function               *)
NormalNext(P, i) ==
  IF P[i].kind = "return" THEN End(P)
  ELSE IF P[i].region \in {"try0", "try"} THEN FirstIn(P, i, Regions \ HandlerRegions)
  ELSE FirstIn(P, i, Regions)

(* a finally block that was entered with an exception (or SystemExit) in   *)
(* flight re-raises it when the block ends                                  *)
AfterNormal(P, i, pend) ==
  LET n == NormalNext(P, i)
  IN IF /\ P[i].region = "finally"
        /\ pend # "none"
        /\ (n = End(P) \/ P[n].region # "finally")
     THEN End(P)
     ELSE n

(* RaiseTarget with the exception swallowed where it is raised: execution  *)
(* resumes at the next statement                                           *)
RaiseTarget_resume(P, i, isExc) == NormalNext(P, i)

(* where control goes when instruction i raises.  isExc: the raised object *)
(* is an Exception (caught by `except Exception`), not a SystemExit        *)
RaiseTarget(P, i, isExc) ==
  LET r == P[i].region
      h == FirstIn(P, i, {"except"})
  IN CASE r = "try0" /\ isExc -> FirstIn(P, i, {"except0"})
       [] r = "try" -> IF isExc /\ h # End(P) THEN h ELSE FirstIn(P, i, {"finally"})
       [] r = "except" -> FirstIn(P, i, {"finally"})
       [] r = "inner" -> FirstIn(P, i, Regions \ {"inner"})
       [] OTHER -> End(P)

(* RaisePending without the `except: pass` around the error screenshot *)
RaisePending_inner_propagates(P, i, isExc) ==
  LET t == RaiseTarget(P, i, isExc)
      caught == t # End(P) /\ P[t].region \in {"except0", "except"}
  IN IF caught THEN "none" ELSE IF isExc THEN "exc" ELSE "exit"

(* the exception still in flight once control has reached RaiseTarget      *)
RaisePending(P, i, isExc) ==
  LET t == RaiseTarget(P, i, isExc)
      caught == \/ P[i].region = "inner"
                \/ (t # End(P) /\ P[t].region \in {"except0", "except"})
  IN IF caught THEN "none" ELSE IF isExc THEN "exc" ELSE "exit"

(* ---- state ---- *)
NoResult ==
  [set |-> FALSE, pastDust |-> FALSE, currDust |-> FALSE,
   futureDust |-> FALSE, dustVisible |-> FALSE]

(* the debug state of the page seen by verify_dust.py's read (none yet) *)
NoApp ==
  [read |-> FALSE, aetherDebug |-> FALSE, weatherEffects |-> FALSE,
   pastDust |-> FALSE, currDust |-> FALSE, futureDust |-> FALSE,
   mesh |-> FALSE, visible |-> FALSE]

Init ==
  /\ script \in Scripts
  /\ pc = 1
  /\ pending = "none"
  /\ trace = <<>>
  /\ artifacts = <<>>
  /\ closed = 0
  /\ reported = FALSE
  /\ text = <<>>
  /\ result = NoResult
  /\ status = "running"
  /\ exitCode = -1
  /\ escaped = FALSE
  /\ app = NoApp
  /\ listeners = {}
  /\ emitted = <<>>
  /\ transcript = <<>>

P == Prog(script)

At(k) == status = "running" /\ pc <= Len(P) /\ P[pc].kind = k

Entry(ok) ==
  [kind |-> P[pc].kind, arg |-> P[pc].arg, line |-> P[pc].line, pc |-> pc, ok |-> ok,
   val |-> TRUE]

(* the call at pc returns *)
Returns ==
  /\ trace' = Append(trace, Entry(TRUE))
  /\ pc' = AfterNormal(P, pc, pending)
  /\ UNCHANGED pending

(* the call at pc raises an Exception *)
Raises ==
  /\ trace' = Append(trace, Entry(FALSE))
  /\ pc' = RaiseTarget(P, pc, TRUE)
  /\ pending' = RaisePending(P, pc, TRUE)

Rest ==
  <<script, artifacts, closed, reported, text, result, status, exitCode, escaped,
    app, listeners, emitted, transcript>>

(* ---- one action per call of the scripts ---- *)

(* p.chromium.launch() *)
Launch ==
  /\ At("launch")
  /\ (Returns \/ Raises)
  /\ UNCHANGED Rest

(* browser.new_page() *)
NewPage ==
  /\ At("new_page")
  /\ (Returns \/ Raises)
  /\ UNCHANGED Rest

(* page.on(event, callback): registers a listener, does not raise *)
Listen ==
  /\ At("listen")
  /\ Returns
  /\ listeners' = listeners \cup {P[pc].arg}
  /\ UNCHANGED <<script, artifacts, closed, reported, text, result, status, exitCode,
               escaped, app, emitted, transcript>>

(* page.goto(url) *)
Goto ==
  /\ At("goto")
  /\ (Returns \/ Raises)
  /\ UNCHANGED Rest

(* page.wait_for_selector(selector): raises on timeout *)
WaitForSelector ==
  /\ At("wait_selector")
  /\ (Returns \/ Raises)
  /\ UNCHANGED Rest

(* page.wait_for_timeout(ms) *)
WaitForTimeout ==
  /\ At("wait_timeout")
  /\ (Returns \/ Raises)
  /\ UNCHANGED Rest

(* time.sleep(s): always returns *)
Sleep ==
  /\ At("sleep")
  /\ Returns
  /\ UNCHANGED Rest

(* page.evaluate("window.setDebugTime(h)") / ("window.setDebugWeather(c)") *)
Hook ==
  /\ At("hook")
  /\ (Returns \/ Raises)
  /\ UNCHANGED Rest

(* page.click(selector) / btn.click() *)
Click ==
  /\ At("click")
  /\ (Returns \/ Raises)
  /\ UNCHANGED Rest

(* time_display.evaluate(getComputedStyle(element).color) *)
Style ==
  /\ At("style")
  /\ (Returns \/ Raises)
  /\ UNCHANGED Rest

(* locator.inner_text(): returns the element's text *)
InnerText ==
  /\ At("inner_text")
  /\ \/ /\ Returns
        /\ text' \in Texts
     \/ /\ Raises
        /\ UNCHANGED text
  /\ UNCHANGED <<script, artifacts, closed, reported, result, status, exitCode, escaped,
               app, listeners, emitted, transcript>>

(* btn.is_visible(): the guarded branch is skipped when it returns False *)
IsVisible ==
  /\ At("is_visible")
  /\ \/ Returns
     \/ /\ trace' = Append(trace, [Entry(TRUE) EXCEPT !.val = FALSE])
        /\ pc' = FirstUnguarded(P, pc)
        /\ UNCHANGED pending
     \/ Raises
  /\ UNCHANGED Rest

(* page.screenshot(path=...): writes the file when it returns *)
Screenshot ==
  /\ At("screenshot")
  /\ \/ /\ Returns
        /\ artifacts' = Append(artifacts, P[pc].arg)
     \/ /\ Raises
        /\ UNCHANGED artifacts
  /\ UNCHANGED <<script, closed, reported, text, result, status, exitCode, escaped,
               app, listeners, emitted, transcript>>

(* verify_date_display.py: if len(date_text) < 3 or date_text == "--": raise *)
DateOk(t) == ~(Len(t) < MinDateLen \/ t = Placeholder)

AssertDate ==
  /\ At("assert_date")
  /\ IF DateOk(text) THEN Returns ELSE Raises
  /\ UNCHANGED Rest

(* DustThrows with the mesh read made safe (we.currDust.mesh?.visible) *)
DustThrows_safe_mesh(ad, we, curr, mesh) == ~ad \/ ~we

(* verify_dust.py: the JS expression evaluated in the page.  It throws     *)
(* when aetherDebug or weatherEffects is missing, or when currDust exists  *)
(* and has no mesh; page.evaluate then raises.                             *)
DustThrows(ad, we, curr, mesh) == ~ad \/ ~we \/ (curr /\ ~mesh)

DustValue(past, curr, fut, vis) ==
  [set |-> TRUE, pastDust |-> past, currDust |-> curr, futureDust |-> fut,
   dustVisible |-> (curr /\ vis)]

(* the debug states the page can be in: weatherEffects hangs off           *)
(* aetherDebug, the dust systems off weatherEffects, the mesh off currDust *)
AppStates ==
  {a \in [read : {TRUE}, aetherDebug : BOOLEAN, weatherEffects : BOOLEAN,
          pastDust : BOOLEAN, currDust : BOOLEAN, futureDust : BOOLEAN,
          mesh : BOOLEAN, visible : BOOLEAN] :
     /\ a.weatherEffects => a.aetherDebug
     /\ (a.pastDust \/ a.currDust \/ a.futureDust) => a.weatherEffects
     /\ a.mesh => a.currDust
     /\ a.visible => a.mesh}

DustEval ==
  /\ At("dust_eval")
  /\ \E a \in AppStates :
       /\ app' = a
       /\ IF DustThrows(a.aetherDebug, a.weatherEffects, a.currDust, a.mesh)
          THEN Raises /\ UNCHANGED result
          ELSE \/ Returns /\ result' = DustValue(a.pastDust, a.currDust, a.futureDust, a.visible)
               \/ Raises /\ UNCHANGED result
  /\ UNCHANGED <<script, artifacts, closed, reported, text, status, exitCode, escaped,
               listeners, emitted, transcript>>

(* verify_dust.py: if pastDust and currDust and futureDust: SUCCESS        *)
(* else: print FAILURE; exit(1)  (SystemExit, not caught by except)        *)
(* DustPass that also demands a visible currDust mesh *)
DustPass_visible(r) == r.pastDust /\ r.currDust /\ r.futureDust /\ r.dustVisible

DustPass(r) == r.pastDust /\ r.currDust /\ r.futureDust

DustCheck ==
  /\ At("dust_check")
  /\ IF DustPass(result)
     THEN Returns /\ UNCHANGED reported
     ELSE /\ trace' = Append(trace, Entry(FALSE))
          /\ pc' = RaiseTarget(P, pc, FALSE)
          /\ pending' = RaisePending(P, pc, FALSE)
          /\ reported' = TRUE
  /\ UNCHANGED <<script, artifacts, closed, text, result, status, exitCode, escaped,
               app, listeners, emitted, transcript>>

(* print(f"Error: {e}") in an except block *)
Report ==
  /\ At("report")
  /\ reported' = TRUE
  /\ pc' = AfterNormal(P, pc, pending)
  /\ UNCHANGED <<script, pending, trace, artifacts, closed, text, result, status, exitCode, escaped,
               app, listeners, emitted, transcript>>

(* exit(1): raises SystemExit *)
Exit1 ==
  /\ At("exit")
  /\ pc' = RaiseTarget(P, pc, FALSE)
  /\ pending' = RaisePending(P, pc, FALSE)
  /\ UNCHANGED <<script, trace, artifacts, closed, reported, text, result, status, exitCode, escaped,
               app, listeners, emitted, transcript>>

(* return *)
Return ==
  /\ At("return")
  /\ pc' = AfterNormal(P, pc, pending)
  /\ UNCHANGED <<script, pending, trace, artifacts, closed, reported, text, result, status, exitCode, escaped,
               app, listeners, emitted, transcript>>

(* browser.close() *)
Close ==
  /\ At("close")
  /\ Returns
  /\ closed' = closed + 1
  /\ UNCHANGED <<script, artifacts, reported, text, result, status, exitCode, escaped,
               app, listeners, emitted, transcript>>

(* the interpreter leaves the script: an uncaught exception prints a       *)
(* traceback and exits 1, SystemExit(1) exits 1, otherwise exit code 0     *)
ProcessExit ==
  /\ status = "running"
  /\ pc = End(P)
  /\ status' = "exited"
  /\ exitCode' = IF pending = "none" THEN 0 ELSE 1
  /\ escaped' = (pending = "exc")
  /\ reported' = (reported \/ pending = "exc")
  /\ UNCHANGED <<script, pc, pending, trace, artifacts, closed, text, result,
               app, listeners, emitted, transcript>>

(* the page emits a console message or an uncaught error: possible from   *)
(* the start of page.goto (pc at the goto call: the page is loading) until *)
(* the browser is closed or the script has ended.  Playwright calls the    *)
(* callback registered with page.on for that event, which prints it.       *)
GotoStarted ==
  \/ pc <= Len(P) /\ P[pc].kind = "goto"
  \/ \E i \in 1..Len(trace) : trace[i].kind = "goto"

Phase == IF pc <= Len(P) /\ P[pc].kind = "goto" THEN "load" ELSE "after"

Emit ==
  /\ status = "running"
  /\ pc <= Len(P)
  /\ closed = 0
  /\ GotoStarted
  /\ Len(emitted) < MaxEvents
  /\ \E ev \in {"console", "pageerror"} :
       /\ emitted' = Append(emitted, [event |-> ev, phase |-> Phase])
       /\ transcript' = IF ev \in listeners
                        THEN Append(transcript, [event |-> ev, phase |-> Phase])
                        ELSE transcript
  /\ UNCHANGED <<script, pc, pending, trace, artifacts, closed, reported, text, result,
               status, exitCode, escaped, app, listeners>>

Next ==
  \/ Emit
  \/ Launch \/ NewPage \/ Listen \/ Goto \/ WaitForSelector \/ WaitForTimeout
  \/ Sleep \/ Hook \/ Click \/ Style \/ InnerText \/ IsVisible \/ Screenshot
  \/ AssertDate \/ DustEval \/ DustCheck \/ Report \/ Exit1 \/ Return \/ Close
  \/ ProcessExit

Spec == Init /\ [][Next]_vars

TypeOK ==
  /\ script \in Scripts
  /\ pc \in 1..End(P)
  /\ pending \in {"none", "exc", "exit"}
  /\ closed \in Nat
  /\ status \in {"running", "exited"}
  /\ exitCode \in {-1, 0, 1}

(* ======================================================================= *)
(* Properties                                                              *)
(* ======================================================================= *)
Idx == 1..Len(trace)

Exited == status = "exited"

Failed(i) == ~trace[i].ok

Is(i, kinds) == trace[i].kind \in kinds

MutationKinds == {"hook", "click"}

WaitKinds == {"wait_selector", "wait_timeout", "sleep"}

CaptureKinds == {"screenshot", "style", "inner_text", "dust_eval"}

StepKinds ==
  {"goto", "wait_selector", "wait_timeout", "hook", "click", "style",
   "inner_text", "is_visible", "screenshot", "assert_date", "dust_eval",
   "dust_check"}

LaunchSucceeded == \E i \in Idx : Is(i, {"launch"}) /\ trace[i].ok

(* the diagnostic screenshot of verify_scene.py's except block *)
IsErrorShot(i) ==
  /\ script = "verify_scene"
  /\ Is(i, {"screenshot"})
  /\ trace[i].arg = "error_state.png"

(* C1: in every script, once the launch has succeeded, browser.close() has *)
(* been called exactly once when the script ends, whichever later call     *)
(* returned or raised.                                                     *)
C1_CloseExactlyOnce ==
  /\ closed <= 1
  /\ (Exited /\ LaunchSucceeded) => closed = 1

(* C2: a run ends with exit code 0 if and only if no step failed: every    *)
(* run in which a call raised or an assertion was false ends non-zero.     *)
C2_ExitZeroIffNoFailure ==
  Exited => (exitCode = 0 <=> \A i \in Idx : trace[i].ok)

(* C3 as stated: after a readiness wait timed out the run is marked failed *)
(* and nothing but teardown is executed: no hook, no wait, no capture.     *)
C3_NothingAfterTimeout ==
  \A i \in Idx :
    (Is(i, {"wait_selector"}) /\ Failed(i)) =>
      /\ \A j \in Idx : j > i => Is(j, {"close"})
      /\ Exited => reported

(* C3 amended: after a readiness wait timed out the run is reported failed *)
(* and no hook, wait or scenario capture is executed; the only call that   *)
(* can come before teardown is verify_scene's one attempt at the           *)
(* diagnostic screenshot error_state.png.                                  *)
C3_NothingAfterTimeoutButErrorShot ==
  \A i \in Idx :
    (Is(i, {"wait_selector"}) /\ Failed(i)) =>
      /\ \A j \in Idx : j > i => (Is(j, {"close"}) \/ IsErrorShot(j))
      /\ Cardinality({j \in Idx : j > i /\ IsErrorShot(j)}) <= 1
      /\ Exited => reported

C3_Witness ==
  /\ Exited
  /\ script = "verify_scene"
  /\ \E i \in Idx : Is(i, {"wait_selector"}) /\ Failed(i)
  /\ \E j \in Idx : IsErrorShot(j)
  /\ closed = 1

(* C4: an error of a step (hook, readiness wait, capture, assertion) never *)
(* leaves the script as a raised exception: it is caught and reported.     *)
C4_StepErrorNeverEscapes ==
  (Exited /\ \E i \in Idx : Is(i, StepKinds \ {"goto"}) /\ Failed(i)) =>
    (~escaped /\ reported)

(* C5 as stated: after page.goto failed nothing but teardown is executed:  *)
(* no hook, no wait, no capture, no screenshot.                            *)
C5_NothingAfterGotoFailure ==
  \A i \in Idx :
    (Is(i, {"goto"}) /\ Failed(i)) => \A j \in Idx : j > i => Is(j, {"close"})

(* C5 amended: after page.goto failed no hook, wait or scenario capture is *)
(* executed; the only browser calls that can follow are teardown and, in   *)
(* verify_scene only, one attempt at the screenshot error_state.png.       *)
C5_NothingAfterGotoFailureButErrorShot ==
  \A i \in Idx :
    (Is(i, {"goto"}) /\ Failed(i)) =>
      /\ \A j \in Idx : j > i => (Is(j, {"close"}) \/ IsErrorShot(j))
      /\ Cardinality({j \in Idx : j > i /\ IsErrorShot(j)}) <= 1

C5_Witness ==
  /\ Exited
  /\ script = "verify_weather"
  /\ \E i \in Idx : Is(i, {"goto"}) /\ Failed(i)
  /\ closed = 1
  /\ reported

(* the screenshots written by the calls before position i, in order *)
RECURSIVE ShotsBefore(_)
ShotsBefore(i) ==
  IF i <= 1 THEN <<>>
  ELSE IF Is(i - 1, {"screenshot"}) /\ trace[i - 1].ok
       THEN Append(ShotsBefore(i - 1), trace[i - 1].arg)
       ELSE ShotsBefore(i - 1)

(* C6: when a debug hook invocation raises, the run goes to teardown and   *)
(* to no later hook, wait or screenshot, and the screenshots taken before  *)
(* the failure are kept: none is undone or overwritten.                    *)
C6_HookFailureGoesToTeardown ==
  \A i \in Idx :
    (Is(i, {"hook"}) /\ Failed(i)) =>
      /\ \A j \in Idx : j > i => Is(j, {"close"})
      /\ Exited => closed = 1
      /\ artifacts = ShotsBefore(i)

(* C7: the date-display assertion passes if and only if the captured text  *)
(* is non-empty and differs from the placeholder "--".                     *)
C7_DatePassesIffNonEmptyNotPlaceholder ==
  \A i \in Idx :
    Is(i, {"assert_date"}) => (trace[i].ok <=> (text # <<>> /\ text # Placeholder))

(* C8: a failed capture does not abort the remaining captures of its step: *)
(* when the computed-style read of #time-display fails, the screenshot     *)
(* declared after it in the step (verify_timewarp.png) is still executed,  *)
(* and the failure is reported.                                            *)
C8_FailedCaptureDoesNotAbortStep ==
  \A i \in Idx :
    (Exited /\ Is(i, {"style"}) /\ Failed(i)) =>
      /\ \E j \in Idx :
           /\ j > i
           /\ Is(j, {"screenshot"})
           /\ trace[j].arg = "verification/verify_timewarp.png"
      /\ reported

(* C9: calls execute in declared order: between a mutation (hook, click)   *)
(* and the next screenshot a readiness wait has completed, and a mutation  *)
(* is invoked only after every capture declared before it has completed.   *)
C9_DeclaredOrder ==
  /\ \A i, j \in Idx : i < j => trace[i].pc < trace[j].pc
  /\ \A i, j \in Idx :
       (i < j /\ Is(i, MutationKinds) /\ Is(j, {"screenshot"})) =>
         \E k \in (i + 1)..(j - 1) : Is(k, WaitKinds) /\ trace[k].ok
  /\ \A j \in Idx :
       Is(j, MutationKinds) =>
         \A q \in 1..(trace[j].pc - 1) :
           P[q].kind \in CaptureKinds =>
             \E i \in 1..(j - 1) : trace[i].pc = q /\ trace[i].ok

C9_Witness ==
  /\ Exited
  /\ script = "verify_weather"
  /\ \A i \in Idx : trace[i].ok
  /\ Len(artifacts) = 3
  /\ Cardinality({i \in Idx : Is(i, MutationKinds)}) = 2

(* C10: within one run no two executed screenshot captures have the same   *)
(* destination, on any path including the error path, so no artifact is    *)
(* overwritten by a later capture of the run.                              *)
C10_UniqueDestinations ==
  /\ \A i, j \in Idx :
       (i # j /\ Is(i, {"screenshot"}) /\ Is(j, {"screenshot"})) =>
         trace[i].arg # trace[j].arg
  /\ \A a, b \in 1..Len(artifacts) : a # b => artifacts[a] # artifacts[b]

C10_Witness ==
  /\ Exited
  /\ script = "verify_scene"
  /\ \E i, j \in Idx :
       /\ i < j
       /\ Is(i, {"screenshot"}) /\ Failed(i)
       /\ IsErrorShot(j) /\ trace[j].ok
  /\ artifacts = <<"error_state.png">>

(* ---- the debug-state read of verify_dust.py ---- *)
AbsentSegment(a) ==
  ~a.aetherDebug \/ ~a.weatherEffects \/ (a.currDust /\ ~a.mesh)

AllThreeExist(a) == a.pastDust /\ a.currDust /\ a.futureDust

ReadReturned == \E i \in Idx : Is(i, {"dust_eval"}) /\ trace[i].ok

(* "SUCCESS: Dust systems verified." was printed *)
Success == \E i \in Idx : Is(i, {"dust_check"}) /\ trace[i].ok

(* page.evaluate raised although the expression itself does not throw *)
EvaluateBroke == app.read /\ ~ReadReturned /\ ~AbsentSegment(app)

(* C11: a read of the nested debug state with an absent path segment       *)
(* (aetherDebug, weatherEffects or currDust.mesh missing) ends the run as  *)
(* a reported failure with exit code 1 and the browser closed, never as    *)
(* an uncaught exception and never as a reported SUCCESS.                  *)
C11_AbsentSegmentIsReportedFailure ==
  (script = "verify_dust" /\ app.read /\ AbsentSegment(app)) =>
    /\ ~Success
    /\ ~ReadReturned
    /\ Exited => (exitCode = 1 /\ closed = 1 /\ ~escaped /\ reported)

C11_Witness ==
  /\ Exited
  /\ script = "verify_dust"
  /\ app.read /\ AllThreeExist(app) /\ ~app.mesh
  /\ exitCode = 1
  /\ closed = 1

(* C12: the console and pageerror listeners are installed before the       *)
(* navigation starts and stay installed until teardown, so every message   *)
(* and page error emitted between the start of page.goto and               *)
(* browser.close is appended to the transcript, those of the page load     *)
(* included.                                                               *)
C12_NoEventMissed ==
  (script = "verify_sunny" /\ GotoStarted) =>
    /\ listeners = {"console", "pageerror"}
    /\ transcript = emitted

C12_Witness ==
  /\ Exited
  /\ script = "verify_sunny"
  /\ closed = 1
  /\ Len(transcript) >= 2
  /\ transcript[1].phase = "load"
  /\ \E i \in 1..Len(transcript) : transcript[i].event = "pageerror"

(* C13 as stated: verify_dust reports SUCCESS (exit code 0) if and only if *)
(* pastDust, currDust and futureDust all exist; the verdict does not       *)
(* depend on currDust's mesh.                                              *)
C13_SuccessIffAllThreeExist ==
  (Exited /\ script = "verify_dust" /\ app.read /\ ~EvaluateBroke) =>
    ((Success /\ exitCode = 0) <=> AllThreeExist(app))

(* C13 amended: verify_dust reports SUCCESS (exit code 0) if and only if   *)
(* the read returns a result and pastDust, currDust and futureDust all     *)
(* exist; the read returns only when currDust, if it exists, has a mesh,   *)
(* so the verdict depends on the three systems and on the presence of      *)
(* currDust's mesh, and not on the mesh's visibility.                      *)
C13_SuccessIffReadReturnsAndAllThreeExist ==
  (Exited /\ script = "verify_dust") =>
    /\ (exitCode = 0) <=> Success
    /\ Success <=> (ReadReturned /\ AllThreeExist(app))
    /\ ReadReturned => ~AbsentSegment(app)
    /\ (app.read /\ ~EvaluateBroke) => (ReadReturned <=> ~AbsentSegment(app))

C13_Witness ==
  /\ Exited
  /\ script = "verify_dust"
  /\ Success
  /\ exitCode = 0
  /\ app.mesh /\ ~app.visible

(* a call of verify_scene.py's try body raised *)
SceneStepRaised ==
  \E i \in Idx : Failed(i) /\ Is(i, StepKinds) /\ ~IsErrorShot(i)

(* C14: in verify_scene.run, when a step raises, error_state.png is        *)
(* attempted at most once, a failure of that screenshot is swallowed,      *)
(* browser.close() still runs afterwards and run() returns without         *)
(* raising; on a run with no failure error_state.png is never written.     *)
C14_ErrorScreenshotOnceAndSwallowed ==
  script = "verify_scene" =>
    /\ Cardinality({i \in Idx : IsErrorShot(i)}) <= 1
    /\ (\E i \in Idx : IsErrorShot(i)) => SceneStepRaised
    /\ ~SceneStepRaised => \A a \in 1..Len(artifacts) : artifacts[a] # "error_state.png"
    /\ (Exited /\ SceneStepRaised) =>
         /\ \E i, j \in Idx : i < j /\ IsErrorShot(i) /\ Is(j, {"close"})
         /\ closed = 1
         /\ ~escaped
         /\ exitCode = 0

C14_Witness ==
  /\ Exited
  /\ script = "verify_scene"
  /\ \E i \in Idx : Is(i, {"wait_timeout"}) /\ Failed(i)
  /\ \E i \in Idx : IsErrorShot(i) /\ Failed(i)
  /\ closed = 1
  /\ ~escaped

(* C15: in verify_splashes the time-warp button is clicked, and its label  *)
(* read, only when it is visible and at most once per run; whether or not  *)
(* the button is visible, splashes.png is captured, after the rain         *)
(* mutation setDebugWeather(61) and its wait.                              *)
C15_ClickOnlyIfVisibleAndScreenshotAlways ==
  script = "verify_splashes" =>
    /\ \A j \in Idx :
         Is(j, {"click", "inner_text"}) =>
           \E i \in 1..(j - 1) : Is(i, {"is_visible"}) /\ trace[i].ok /\ trace[i].val
    /\ Cardinality({j \in Idx : Is(j, {"click"})}) <= 1
    /\ (Exited /\ \E i \in Idx : Is(i, {"is_visible"}) /\ trace[i].ok) =>
         \E h, w, c \in Idx :
           /\ h < w /\ w < c
           /\ Is(h, {"hook"}) /\ trace[h].arg = "setDebugWeather(61)" /\ trace[h].ok
           /\ Is(w, {"sleep"}) /\ trace[w].ok
           /\ Is(c, {"screenshot"}) /\ trace[c].arg = "verification/splashes.png"

====
